---- MODULE Spec2Model ----
(***************************************************************************)
(* Rocket: form-value conversion (lib/src/request/form/from_form_value.rs) *)
(* and the MessagePack data guard / responder (contrib/src/msgpack.rs).    *)
(*                                                                         *)
(* Strings are sequences of bytes.  A raw form value is a Rust &str, so it *)
(* is valid UTF-8; the raw values drawn here are ASCII.                    *)
(***************************************************************************)
EXTENDS Integers, Sequences, FiniteSets, TLC

VARIABLES ty, field, pc, called, outcome, binding,
          request, data, mpc, dataOutcome, wrapped, response

vars == <<ty, field, pc, called, outcome, binding,
          request, data, mpc, dataOutcome, wrapped, response>>

formVars == <<ty, field, pc, called, outcome, binding>>
mpVars == <<request, data, mpc, dataOutcome, wrapped, response>>

(***************************************************************************)
(* Bounds of the model.                                                    *)
(***************************************************************************)
\* longest raw value enumerated exhaustively over an alphabet
MaxLen == 3
\* deepest nesting of Option<..> / Result<..> around a base type
MaxNest == 1
\* request bodies and serializations of 0..MaxBody bytes around each size of interest
MaxBody == 2

(***************************************************************************)
(* Bytes and strings.                                                      *)
(***************************************************************************)
Ord ==
    [c \in {" ", "%", "+", "-", "0", "1", "2", "3", "4", "5", "6", "7", "8", "9",
            "A", "B", "C", "T", "a", "b", "c", "e", "f", "l", "n", "o", "r", "s",
            "t", "u", "x"} |->
        CASE c = " " -> 32 [] c = "%" -> 37 [] c = "+" -> 43 [] c = "-" -> 45
          [] c = "0" -> 48 [] c = "1" -> 49 [] c = "2" -> 50 [] c = "3" -> 51
          [] c = "4" -> 52 [] c = "5" -> 53 [] c = "6" -> 54 [] c = "7" -> 55
          [] c = "8" -> 56 [] c = "9" -> 57
          [] c = "A" -> 65 [] c = "B" -> 66 [] c = "C" -> 67 [] c = "T" -> 84
          [] c = "a" -> 97 [] c = "b" -> 98 [] c = "c" -> 99 [] c = "e" -> 101
          [] c = "f" -> 102 [] c = "l" -> 108 [] c = "n" -> 110 [] c = "o" -> 111
          [] c = "r" -> 114 [] c = "s" -> 115 [] c = "t" -> 116 [] c = "u" -> 117
          [] c = "x" -> 120]

\* the bytes of a string literal written one character per element
Str(cs) == [i \in 1..Len(cs) |-> Ord[cs[i]]]

BoundedSeq(S, n) == UNION {[1..k -> S] : k \in 0..n}

IsDigit(b) == b >= 48 /\ b <= 57

\* char::to_digit(16): the value of a hexadecimal digit, -1 when it is none
HexVal(b) ==
    IF b >= 48 /\ b <= 57 THEN b - 48
    ELSE IF b >= 65 /\ b <= 70 THEN b - 55
    ELSE IF b >= 97 /\ b <= 102 THEN b - 87
    ELSE -1

(***************************************************************************)
(* Values.  Every value has the same record shape, so that any two values  *)
(* can be compared: t is the variant, b / n / s the payload of a bool, an  *)
(* integer or a string, and in the wrapped value of Some / Ok / Err.       *)
(***************************************************************************)
V(t, b, n, s, in) == [t |-> t, b |-> b, n |-> n, s |-> s, in |-> in]
Unit == V("()", FALSE, 0, <<>>, <<>>)
BoolV(b) == V("bool", b, 0, <<>>, <<>>)
IntV(n) == V("int", FALSE, n, <<>>, <<>>)
StrV(s) == V("str", FALSE, 0, s, <<>>)
Some(x) == V("Some", FALSE, 0, <<>>, <<x>>)
None == V("None", FALSE, 0, <<>>, <<>>)
Ok(x) == V("Ok", FALSE, 0, <<>>, <<x>>)
Err(e) == V("Err", FALSE, 0, <<>>, <<e>>)
IsOk(r) == r.t = "Ok"
IsErr(r) == r.t = "Err"
Unwrap(r) == r.in[1]

(***************************************************************************)
(* str::replace("+", " ")                                                  *)
(***************************************************************************)
ReplacePlus(v) == [i \in 1..Len(v) |-> IF v[i] = 43 THEN 32 ELSE v[i]]

(***************************************************************************)
(* URI::percent_decode: each %XX triplet becomes the byte XX, every other  *)
(* byte passes through; a '%' that does not start a triplet, or a decoded  *)
(* byte sequence that is not UTF-8, is an error.                           *)
(***************************************************************************)
IsCont(b) == b >= 128 /\ b <= 191

RECURSIVE Utf8From(_, _)
Utf8From(bs, i) ==
    IF i > Len(bs) THEN TRUE
    ELSE LET b == bs[i]
             has(k) == i + k <= Len(bs) /\ \A j \in 1..k : IsCont(bs[i + j])
         IN  IF b < 128 THEN Utf8From(bs, i + 1)
             ELSE IF b >= 194 /\ b <= 223 THEN has(1) /\ Utf8From(bs, i + 2)
             ELSE IF b >= 224 /\ b <= 239 THEN
                 /\ has(2)
                 /\ (b = 224 => bs[i + 1] >= 160)
                 /\ (b = 237 => bs[i + 1] <= 159)
                 /\ Utf8From(bs, i + 3)
             ELSE IF b >= 240 /\ b <= 244 THEN
                 /\ has(3)
                 /\ (b = 240 => bs[i + 1] >= 144)
                 /\ (b = 244 => bs[i + 1] <= 143)
                 /\ Utf8From(bs, i + 4)
             ELSE FALSE

Utf8Valid(bs) == Utf8From(bs, 1)

\* the decoded bytes, or <<-1>> once a malformed escape is met
RECURSIVE DecodeFrom(_, _, _)
DecodeFrom(s, i, acc) ==
    IF i > Len(s) THEN acc
    ELSE IF s[i] # 37 THEN DecodeFrom(s, i + 1, Append(acc, s[i]))
    ELSE IF i + 2 <= Len(s) /\ HexVal(s[i + 1]) >= 0 /\ HexVal(s[i + 2]) >= 0
         THEN DecodeFrom(s, i + 3, Append(acc, 16 * HexVal(s[i + 1]) + HexVal(s[i + 2])))
         ELSE <<-1>>

\* fault: a '%' that starts no triplet passes through instead of failing
percent_decode_lenient(s) ==
    LET RECURSIVE Lenient(_, _)
        Lenient(i, acc) ==
            IF i > Len(s) THEN acc
            ELSE IF s[i] = 37 /\ i + 2 <= Len(s)
                    /\ HexVal(s[i + 1]) >= 0 /\ HexVal(s[i + 2]) >= 0
                 THEN Lenient(i + 3, Append(acc, 16 * HexVal(s[i + 1]) + HexVal(s[i + 2])))
                 ELSE Lenient(i + 1, Append(acc, s[i]))
        bytes == Lenient(1, <<>>)
    IN  IF ~Utf8Valid(bytes) THEN Err(Unit) ELSE Ok(StrV(bytes))

percent_decode(s) ==
    LET bytes == DecodeFrom(s, 1, <<>>)
    IN  IF bytes = <<-1>> THEN Err(Unit)
        ELSE IF ~Utf8Valid(bytes) THEN Err(Unit)
        ELSE Ok(StrV(bytes))

(***************************************************************************)
(* The standard parser of the integer types ($T::from_str): an optional    *)
(* '+', or '-' for a signed type, then at least one decimal digit; the     *)
(* digits are accumulated with checked arithmetic in the type's range.     *)
(***************************************************************************)
IntTypes == {"u8", "i8", "u16", "i16"}
IsSigned(T) == T \in {"i8", "i16"}
MinValue(T) ==
    CASE T = "u8" -> 0 [] T = "i8" -> -128 [] T = "u16" -> 0 [] T = "i16" -> -32768
MaxValue(T) ==
    CASE T = "u8" -> 255 [] T = "i8" -> 127 [] T = "u16" -> 65535 [] T = "i16" -> 32767

RECURSIVE ParseDigits(_, _, _, _, _)
ParseDigits(T, digits, i, positive, result) ==
    IF i > Len(digits) THEN Ok(IntV(result))
    ELSE IF ~IsDigit(digits[i]) THEN Err(Unit)
    ELSE LET x == digits[i] - 48
             mul == result * 10
             acc == IF positive THEN mul + x ELSE mul - x
         IN  IF mul < MinValue(T) \/ mul > MaxValue(T) THEN Err(Unit)
             ELSE IF acc < MinValue(T) \/ acc > MaxValue(T) THEN Err(Unit)
             ELSE ParseDigits(T, digits, i + 1, positive, acc)

FromStr(T, src) ==
    IF src = <<>> THEN Err(Unit)
    ELSE LET positive == ~(src[1] = 45 /\ IsSigned(T))
             digits == IF src[1] = 43 \/ (src[1] = 45 /\ IsSigned(T))
                       THEN Tail(src) ELSE src
         IN  IF digits = <<>> THEN Err(Unit)
             ELSE ParseDigits(T, digits, 1, positive, 0)

(***************************************************************************)
(* The FromFormValue implementations.  A type is a sequence: the wrappers  *)
(* Option / Result from the outside in, then the base type.                *)
(***************************************************************************)
StrFromFormValue(v) == Ok(StrV(v))

\* fault: the error carries the '+'-replaced intermediate, not v
StringFromFormValue_ErrReplaced(v) ==
    LET replaced == ReplacePlus(v)
        decoded == percent_decode(replaced)
    IN  IF IsErr(decoded) THEN Err(StrV(replaced)) ELSE Ok(Unwrap(decoded))

\* fault: '+' is replaced after decoding, so an escaped '+' becomes a space too
StringFromFormValue_DecodeFirst(v) ==
    LET decoded == percent_decode(v)
    IN  IF IsErr(decoded) THEN Err(StrV(v))
        ELSE Ok(StrV(ReplacePlus(Unwrap(decoded).s)))

StringFromFormValue(v) ==
    LET replaced == ReplacePlus(v)
        decoded == percent_decode(replaced)
    IN  IF IsErr(decoded) THEN Err(StrV(v)) ELSE Ok(Unwrap(decoded))

\* fault: "1" and "True" are taken as true as well
BoolFromFormValue_Lax(v) ==
    IF v \in {Str(<<"o", "n">>), Str(<<"t", "r", "u", "e">>), Str(<<"1">>),
              Str(<<"T", "r", "u", "e">>)}
    THEN Ok(BoolV(TRUE))
    ELSE IF v = Str(<<"o", "f", "f">>) \/ v = Str(<<"f", "a", "l", "s", "e">>)
         THEN Ok(BoolV(FALSE))
    ELSE Err(StrV(v))

BoolFromFormValue(v) ==
    IF v = Str(<<"o", "n">>) \/ v = Str(<<"t", "r", "u", "e">>) THEN Ok(BoolV(TRUE))
    ELSE IF v = Str(<<"o", "f", "f">>) \/ v = Str(<<"f", "a", "l", "s", "e">>)
         THEN Ok(BoolV(FALSE))
    ELSE Err(StrV(v))

\* fault: the value is parsed in a wider type and cast down to T
NumFromFormValue_Truncating(T, v) ==
    LET parsed == FromStr("i16", v)
        range == MaxValue(T) - MinValue(T) + 1
    IN  IF IsOk(parsed)
        THEN Ok(IntV(((Unwrap(parsed).n - MinValue(T)) % range) + MinValue(T)))
        ELSE Err(StrV(v))

NumFromFormValue(T, v) ==
    LET parsed == FromStr(T, v)
    IN  IF IsOk(parsed) THEN parsed ELSE Err(StrV(v))

\* fault: the wrapper hands T's rejection on
OptionFromFormValue_Propagate(inner) ==
    IF IsOk(inner) THEN Ok(Some(Unwrap(inner))) ELSE inner

\* fault: the wrapper hands T's rejection on
ResultFromFormValue_Propagate(inner) ==
    IF IsOk(inner) THEN Ok(inner) ELSE inner

\* the wrappers, given the outcome of T::from_form_value(v)
OptionFromFormValue(inner) ==
    IF IsOk(inner) THEN Ok(Some(Unwrap(inner))) ELSE Ok(None)

ResultFromFormValue(inner) == Ok(inner)

RECURSIVE FromFormValue(_, _)
FromFormValue(T, v) ==
    CASE Head(T) = "str" -> StrFromFormValue(v)
      [] Head(T) = "String" -> StringFromFormValue(v)
      [] Head(T) = "bool" -> BoolFromFormValue(v)
      [] Head(T) \in IntTypes -> NumFromFormValue(Head(T), v)
      [] Head(T) = "Option" -> OptionFromFormValue(FromFormValue(Tail(T), v))
      [] Head(T) = "Result" -> ResultFromFormValue(FromFormValue(Tail(T), v))

(***************************************************************************)
(* FromFormValue::default: the trait's provided method and its overrides.  *)
(***************************************************************************)
\* fault: bool keeps the trait's default
BoolDefault_Required == None

TraitDefault == None
BoolDefault == Some(BoolV(FALSE))
OptionDefault == Some(None)

Default(T) ==
    CASE Head(T) = "bool" -> BoolDefault
      [] Head(T) = "Option" -> OptionDefault
      [] OTHER -> TraitDefault

(***************************************************************************)
(* The inputs: the declared type of a field and its raw value, if any.     *)
(***************************************************************************)
BaseTypes == {"str", "String", "bool"} \cup IntTypes
Wrappers == {"Option", "Result"}
\* some wrappers of wrappers, whatever the nesting bound
NestedTypes ==
    {<<"Option", "Result", "u8">>, <<"Result", "Option", "bool">>,
     <<"Option", "Option", "String">>, <<"Result", "Result", "i8">>}
Types ==
    {w \o <<b>> : w \in BoundedSeq(Wrappers, MaxNest), b \in BaseTypes} \cup NestedTypes

RECURSIVE Base(_)
Base(T) == IF Len(T) = 1 THEN T[1] ELSE Base(Tail(T))

NumAlphabet == {Ord[c] : c \in {"0", "1", "2", "5", "6", "7", "8", "9", "-", "+", "a"}}
StrAlphabet == {Ord[c] : c \in {"a", "+", "%", "2", "0", "B", "8"}}
BoolAlphabet == {Ord[c] : c \in {"o", "n", "f"}}

Samples ==
    { Str(<<>>), Str(<<"x">>), Str(<<"1">>),
      Str(<<"t", "r", "u", "e">>), Str(<<"f", "a", "l", "s", "e">>),
      Str(<<"o", "n">>), Str(<<"o", "f", "f">>),
      Str(<<"T", "r", "u", "e">>), Str(<<"t", "r", "u", "e", " ">>),
      Str(<<"2", "5", "5">>), Str(<<"2", "5", "6">>), Str(<<"+", "2", "5", "5">>),
      Str(<<"0", "2", "5", "5">>), Str(<<"1", "2", "7">>), Str(<<"1", "2", "8">>),
      Str(<<"-", "1", "2", "8">>), Str(<<"-", "1", "2", "9">>), Str(<<"-", "0">>),
      Str(<<"1", "0", "0", "0">>), Str(<<"1", " ">>), Str(<<"1", "e", "2">>),
      Str(<<"6", "5", "5", "3", "5">>), Str(<<"6", "5", "5", "3", "6">>),
      Str(<<"3", "2", "7", "6", "7">>), Str(<<"3", "2", "7", "6", "8">>),
      Str(<<"-", "3", "2", "7", "6", "8">>), Str(<<"-", "3", "2", "7", "6", "9">>),
      Str(<<"a", "+", "b", "%", "2", "0", "c">>), Str(<<"1", "0", "0", "%">>),
      Str(<<"a", "%", "2", "B", "b">>), Str(<<"a", "%", "2", "b", "+">>),
      Str(<<"%", "C", "3", "%", "A", "9">>), Str(<<"%", "C", "3", "+">>),
      Str(<<"%", "8", "0">>), Str(<<"+", "%", "2">>), Str(<<"%", "+", "1">>),
      Str(<<"%", "2", "5", "2", "0">>) }

RawValues(T) ==
    Samples \cup
    BoundedSeq(CASE Base(T) \in IntTypes -> NumAlphabet
                 [] Base(T) = "bool" -> BoolAlphabet
                 [] OTHER -> StrAlphabet, MaxLen)

Present(v) == [present |-> TRUE, raw |-> v]
Absent == [present |-> FALSE, raw |-> <<>>]

Pending == V("pending", FALSE, 0, <<>>, <<>>)
Binding(status, v) == [status |-> status, v |-> v]

(***************************************************************************)
(* The form binder's protocol for one field: convert when a raw value      *)
(* exists, otherwise the absent-field default; then interpret the result.  *)
(***************************************************************************)
BindConverted(r) ==
    /\ called' = "from_form_value"
    /\ outcome' = r
    /\ binding' = IF IsOk(r) THEN Binding("value", Unwrap(r))
                  ELSE Binding("invalid", Unwrap(r))
    /\ pc' = "done"
    /\ UNCHANGED <<ty, field>>

BindDefault(d) ==
    /\ called' = "default"
    /\ outcome' = d
    /\ binding' = IF d = None THEN Binding("missing", Unit)
                  ELSE Binding("value", Unwrap(d))
    /\ pc' = "done"
    /\ UNCHANGED <<ty, field>>

(***************************************************************************)
(* One action per FromFormValue implementation the binder may call.        *)
(***************************************************************************)
ConvertStr ==
    /\ pc = "bind" /\ field.present /\ Head(ty) = "str"
    /\ BindConverted(StrFromFormValue(field.raw))
    /\ UNCHANGED mpVars

ConvertString ==
    /\ pc = "bind" /\ field.present /\ Head(ty) = "String"
    /\ BindConverted(StringFromFormValue(field.raw))
    /\ UNCHANGED mpVars

ConvertBool ==
    /\ pc = "bind" /\ field.present /\ Head(ty) = "bool"
    /\ BindConverted(BoolFromFormValue(field.raw))
    /\ UNCHANGED mpVars

ConvertNum ==
    /\ pc = "bind" /\ field.present /\ Head(ty) \in IntTypes
    /\ BindConverted(NumFromFormValue(Head(ty), field.raw))
    /\ UNCHANGED mpVars

ConvertOption ==
    /\ pc = "bind" /\ field.present /\ Head(ty) = "Option"
    /\ BindConverted(OptionFromFormValue(FromFormValue(Tail(ty), field.raw)))
    /\ UNCHANGED mpVars

ConvertResult ==
    /\ pc = "bind" /\ field.present /\ Head(ty) = "Result"
    /\ BindConverted(ResultFromFormValue(FromFormValue(Tail(ty), field.raw)))
    /\ UNCHANGED mpVars

AbsentField ==
    /\ pc = "bind" /\ ~field.present
    /\ BindDefault(Default(ty))
    /\ UNCHANGED mpVars

(***************************************************************************)
(* MessagePack: the data guard and the responder.                          *)
(***************************************************************************)
MAX_SIZE == 1048576

\* fault: either half of the content type is enough
is_msgpack_content_type_Either(ct) ==
    (ct.ttype = "application" \/ ct.ttype = "bin")
        \/ (ct.subtype = "msgpack" \/ ct.subtype = "x-msgpack")

is_msgpack_content_type(ct) ==
    (ct.ttype = "application" \/ ct.ttype = "bin")
        /\ (ct.subtype = "msgpack" \/ ct.subtype = "x-msgpack")

TopTypes == {"application", "bin", "text"}
SubTypes == {"msgpack", "x-msgpack", "json"}
NoContentType == [present |-> FALSE, ttype |-> "", subtype |-> ""]
ContentTypes ==
    {NoContentType} \cup
    {[present |-> TRUE, ttype |-> t, subtype |-> u] : t \in TopTypes, u \in SubTypes}

\* body lengths: the small ones and those around the limit
BodyLens == (0..MaxBody) \cup ((MAX_SIZE - MaxBody)..(MAX_SIZE + MaxBody))

Min(a, b) == IF a <= b THEN a ELSE b

NoOutcome == [kind |-> "none", status |-> "", buf |-> 0, data |-> 0]
Forward(d) == [kind |-> "Forward", status |-> "", buf |-> 0, data |-> d.len - d.consumed]
Success(n) == [kind |-> "Success", status |-> "", buf |-> n, data |-> 0]
Failure(st) == [kind |-> "Failure", status |-> st, buf |-> 0, data |-> 0]

NoResponse == [result |-> "none", status |-> "", contentType |-> "", body |-> "none", len |-> 0]
ResponseOk(ct, n) ==
    [result |-> "Ok", status |-> "", contentType |-> ct, body |-> "sized", len |-> n]
ResponseErr(st) ==
    [result |-> "Err", status |-> st, contentType |-> "", body |-> "none", len |-> 0]

\* MsgPack<T>::from_data(request, data)
FromData ==
    /\ mpc = "guard"
    /\ IF ~(request.present /\ is_msgpack_content_type(request))
       THEN /\ dataOutcome' = Forward(data)
            /\ data' = data
            /\ mpc' = "forwarded"
       ELSE IF data.readFails
       THEN /\ \E k \in {0, Min(data.len, MAX_SIZE)} :
                    data' = [data EXCEPT !.consumed = k]
            /\ dataOutcome' = Failure("BadRequest")
            /\ mpc' = "failed"
       ELSE /\ data' = [data EXCEPT !.consumed = Min(data.len, MAX_SIZE)]
            /\ IF data.decodes
               THEN dataOutcome' = Success(Min(data.len, MAX_SIZE)) /\ mpc' = "handler"
               ELSE dataOutcome' = Failure("BadRequest") /\ mpc' = "failed"
    /\ UNCHANGED <<request, wrapped, response>>
    /\ UNCHANGED formVars

\* the serialization rmp_serde::to_vec(&self.0) gives: an error, or a buffer
Serializations ==
    {[ok |-> FALSE, len |-> 0]} \cup {[ok |-> TRUE, len |-> n] : n \in 0..MaxBody}

\* MsgPack<T>::respond(self), of the value a handler returns
Respond ==
    /\ mpc = "handler"
    /\ \E w \in Serializations :
        /\ wrapped' = w
        /\ response' = IF w.ok THEN ResponseOk("", w.len)
                       ELSE ResponseErr("InternalServerError")
    /\ mpc' = "responded"
    /\ UNCHANGED <<request, data, dataOutcome>>
    /\ UNCHANGED formVars

(***************************************************************************)
(* Specifications.                                                         *)
(***************************************************************************)
FormIdle ==
    /\ ty = <<"str">> /\ field = Absent /\ pc = "idle" /\ called = "none"
    /\ outcome = Pending /\ binding = Binding("pending", Unit)

MsgPackIdle ==
    /\ request = NoContentType
    /\ data = [len |-> 0, readFails |-> FALSE, decodes |-> FALSE, consumed |-> 0]
    /\ mpc = "idle" /\ dataOutcome = NoOutcome
    /\ wrapped = [ok |-> FALSE, len |-> 0] /\ response = NoResponse

Init ==
    /\ ty \in Types
    /\ field \in {Absent} \cup {Present(v) : v \in RawValues(ty)}
    /\ pc = "bind" /\ called = "none"
    /\ outcome = Pending /\ binding = Binding("pending", Unit)
    /\ MsgPackIdle

Next ==
    \/ ConvertStr \/ ConvertString \/ ConvertBool \/ ConvertNum
    \/ ConvertOption \/ ConvertResult \/ AbsentField

Spec == Init /\ [][Next]_vars

InitMsgPack ==
    /\ request \in ContentTypes
    /\ data \in [len : BodyLens, readFails : BOOLEAN, decodes : BOOLEAN, consumed : {0}]
    /\ mpc = "guard" /\ dataOutcome = NoOutcome
    /\ wrapped = [ok |-> FALSE, len |-> 0] /\ response = NoResponse
    /\ FormIdle

NextMsgPack == FromData \/ Respond

SpecMsgPack == InitMsgPack /\ [][NextMsgPack]_vars

(***************************************************************************)
(* Properties.                                                             *)
(***************************************************************************)
\* a conversion of a present field of declared type T has completed
Converted(T) == pc = "done" /\ field.present /\ ty = T
\* ... of a declared type whose outermost constructor is W
ConvertedBy(W) == pc = "done" /\ field.present /\ Head(ty) = W

TrueWords == {Str(<<"t", "r", "u", "e">>), Str(<<"o", "n">>)}
FalseWords == {Str(<<"f", "a", "l", "s", "e">>), Str(<<"o", "f", "f">>)}

\* C1: bool conversion is exact and case-sensitive: Converted(true) iff the
\* raw value is "true" or "on", Converted(false) iff it is "false" or "off",
\* and every other raw value v (such as "", "True", "1") is Rejected(v).
C1_BoolExact ==
    Converted(<<"bool">>) =>
        /\ (outcome = Ok(BoolV(TRUE))) <=> (field.raw \in TrueWords)
        /\ (outcome = Ok(BoolV(FALSE))) <=> (field.raw \in FalseWords)
        /\ (field.raw \notin TrueWords \cup FalseWords) => outcome = Err(StrV(field.raw))

C1_Witness ==
    /\ Converted(<<"bool">>)
    /\ field.raw = Str(<<"T", "r", "u", "e">>)
    /\ outcome = Err(StrV(Str(<<"T", "r", "u", "e">>)))

\* C2: Option<T> never returns Rejected: it is Converted(Some(x)) exactly
\* when T converts the raw value to x and Converted(None) exactly when T
\* rejects it; for an absent field its default is Some(None).
C2_OptionNeverRejects ==
    /\ ConvertedBy("Option") =>
        LET inner == FromFormValue(Tail(ty), field.raw)
        IN  /\ IsOk(outcome)
            /\ IsOk(inner) <=> (outcome = Ok(Some(Unwrap(inner))))
            /\ IsErr(inner) <=> (outcome = Ok(None))
    /\ (pc = "done" /\ ~field.present /\ Head(ty) = "Option") => outcome = Some(None)

C2_Witness ==
    /\ Converted(<<"Option", "u8">>)
    /\ field.raw = Str(<<"2", "5", "6">>)
    /\ outcome = Ok(None)

\* C3: Result<T, T::Error> never returns Rejected and passes T's outcome
\* through unchanged: Converted(Ok(x)) when T converts the raw value to x,
\* Converted(Err(e)) with the same e when T rejects it with e.
C3_ResultPassesThrough ==
    ConvertedBy("Result") =>
        LET inner == FromFormValue(Tail(ty), field.raw)
        IN  /\ IsOk(outcome)
            /\ IsOk(inner) => outcome = Ok(Ok(Unwrap(inner)))
            /\ IsErr(inner) => outcome = Ok(Err(Unwrap(inner)))

C3_Witness ==
    /\ Converted(<<"Result", "u8">>)
    /\ field.raw = Str(<<"2", "5", "6">>)
    /\ outcome = Ok(Err(StrV(Str(<<"2", "5", "6">>))))

\* the number a string of decimal digits denotes
RECURSIVE DigitsValue(_)
DigitsValue(ds) ==
    IF ds = <<>> THEN 0
    ELSE 10 * DigitsValue(SubSeq(ds, 1, Len(ds) - 1)) + (ds[Len(ds)] - 48)

AllDigits(ds) == ds # <<>> /\ \A i \in 1..Len(ds) : IsDigit(ds[i])

\* the decimal representation of an integer (no '+', no leading zeros)
RECURSIVE NatToString(_)
NatToString(n) ==
    IF n < 10 THEN <<48 + n>> ELSE Append(NatToString(n \div 10), 48 + (n % 10))

DecimalString(n) == IF n < 0 THEN <<45>> \o NatToString(-n) ELSE NatToString(n)

InRange(T, n) == MinValue(T) <= n /\ n <= MaxValue(T)

\* the integer a literal of the type denotes: an optional sign, then digits
SignOf(v) == IF v # <<>> /\ v[1] = 45 THEN -1 ELSE 1
Unsigned(v) == IF v # <<>> /\ v[1] \in {43, 45} THEN Tail(v) ELSE v
LiteralValue(v) == SignOf(v) * DigitsValue(Unsigned(v))
IsLiteral(T, v) ==
    /\ AllDigits(Unsigned(v))
    /\ (v[1] = 45 => IsSigned(T))
    /\ InRange(T, LiteralValue(v))

C5_StringErrorIsRaw ==
    (Converted(<<"String">>) /\ IsErr(outcome)) => outcome = Err(StrV(field.raw))

C5_Witness ==
    /\ Converted(<<"String">>)
    /\ field.raw = Str(<<"%", "C", "3", "+">>)
    /\ outcome = Err(StrV(Str(<<"%", "C", "3", "+">>)))

\* a '%' that is not followed by two hexadecimal digits
MalformedEscape(v) ==
    \E i \in 1..Len(v) :
        /\ v[i] = 37
        /\ ~(i + 2 <= Len(v) /\ HexVal(v[i + 1]) >= 0 /\ HexVal(v[i + 2]) >= 0)

\* C6: String conversion rejects every raw value that contains a malformed
\* percent escape; "100%" yields Rejected("100%").
C6_MalformedEscapeRejected ==
    (Converted(<<"String">>) /\ MalformedEscape(field.raw))
        => outcome = Err(StrV(field.raw))

C6_Witness ==
    /\ Converted(<<"String">>)
    /\ field.raw = Str(<<"1", "0", "0", "%">>)
    /\ outcome = Err(StrV(Str(<<"1", "0", "0", "%">>)))

\* one pass over the raw value: a '+' is a space, a %XX triplet is the byte
\* XX, and any other byte is itself
RECURSIVE FormDecoded(_)
FormDecoded(v) ==
    IF v = <<>> THEN <<>>
    ELSE IF v[1] = 43 THEN <<32>> \o FormDecoded(Tail(v))
    ELSE IF v[1] = 37 /\ Len(v) >= 3 /\ HexVal(v[2]) >= 0 /\ HexVal(v[3]) >= 0
         THEN <<16 * HexVal(v[2]) + HexVal(v[3])>> \o FormDecoded(SubSeq(v, 4, Len(v)))
    ELSE <<v[1]>> \o FormDecoded(Tail(v))

\* C7: when String conversion succeeds, the result is the percent-decoding
\* of the raw value with every literal '+' first replaced by a space: a
\* literal '+' becomes a space, %2B decodes to '+', and "a+b%20c" converts
\* to "a b c".
C7_PlusThenDecode ==
    Converted(<<"String">>) =>
        /\ IsOk(outcome) => outcome = Ok(StrV(FormDecoded(field.raw)))
        /\ field.raw = Str(<<"a", "+", "b", "%", "2", "0", "c">>)
            => outcome = Ok(StrV(Str(<<"a", " ", "b", " ", "c">>)))
        /\ field.raw = Str(<<"a", "%", "2", "b", "+">>)
            => outcome = Ok(StrV(Str(<<"a", "+", " ">>)))

C7_Witness ==
    /\ Converted(<<"String">>)
    /\ field.raw = Str(<<"a", "%", "2", "b", "+">>)
    /\ outcome = Ok(StrV(Str(<<"a", "+", " ">>)))

\* C8: under the binder's protocol an absent field is resolved by its
\* declared type alone: bool yields false, Option<T> yields None, every
\* other provided type (numbers, str, String, Result<T, T::Error>) is a
\* missing required field; convert is never called for an absent field and
\* the default is never used when a raw value is present.
C8_AbsentFieldByType ==
    pc = "done" =>
        /\ field.present <=> called = "from_form_value"
        /\ ~field.present <=> called = "default"
        /\ field.present => binding.status \in {"value", "invalid"}
        /\ ~field.present =>
            /\ Head(ty) = "bool" => binding = Binding("value", BoolV(FALSE))
            /\ Head(ty) = "Option" => binding = Binding("value", None)
            /\ Head(ty) \notin {"bool", "Option"} => binding = Binding("missing", Unit)

C8_Witness ==
    /\ pc = "done" /\ ~field.present /\ ty = <<"Result", "u8">>
    /\ called = "default" /\ binding = Binding("missing", Unit)

\* C9: when serialization succeeds, the response built by respond has its
\* Content-Type set to application/msgpack and a fixed-size body holding
\* the serialization; when it fails the result is
\* Err(Status::InternalServerError) and no response is produced.
C9_RespondSetsContentType ==
    mpc = "responded" =>
        /\ wrapped.ok => response = ResponseOk("application/msgpack", wrapped.len)
        /\ ~wrapped.ok => response = ResponseErr("InternalServerError")

MsgPackContentTypes ==
    {<<"application", "msgpack">>, <<"application", "x-msgpack">>,
     <<"bin", "msgpack">>, <<"bin", "x-msgpack">>}

Accepted == request.present /\ <<request.ttype, request.subtype>> \in MsgPackContentTypes

\* C10: from_data returns Forward, handing back the request data unread,
\* exactly when the request has no Content-Type or one that is not among
\* application/msgpack, application/x-msgpack, bin/msgpack, bin/x-msgpack;
\* otherwise it reads at most 1048576 bytes of the body and returns Success
\* when they decode, or Failure with Status::BadRequest when the read or
\* the decode fails.
C10_ForwardIffNotMsgPack ==
    mpc \in {"forwarded", "failed", "handler", "responded"} =>
        /\ dataOutcome.kind = "Forward" <=> ~Accepted
        /\ dataOutcome.kind = "Forward" => data.consumed = 0 /\ dataOutcome.data = data.len
        /\ Accepted =>
            /\ data.consumed <= MAX_SIZE
            /\ (~data.readFails /\ data.decodes)
                => dataOutcome = Success(Min(data.len, MAX_SIZE))
            /\ (data.readFails \/ ~data.decodes) => dataOutcome = Failure("BadRequest")

C10_Witness ==
    /\ mpc = "handler" /\ Accepted /\ request.ttype = "bin"
    /\ data.len > MAX_SIZE /\ data.consumed = MAX_SIZE
    /\ dataOutcome = Success(MAX_SIZE)

====
